---- MODULE Spec2Model ----
(***************************************************************************)
(* Mental-arithmetic drill: the question generator (generateNumber,        *)
(* generateQuestion) and the presentation sequencer (startGame, pauseGame, *)
(* resumeGame, restartGame, the game-logic effect and its timers) of       *)
(* src/src/components/mental-arithmetic-game.tsx.                          *)
(*                                                                         *)
(* Two specifications share the variables:                                 *)
(*   Spec     the component: setup screen, game, pause, results, timers;   *)
(*   GenSpec  generateQuestion run one loop iteration at a time, every     *)
(*            Math.random() result chosen freely from a sample grid.       *)
(***************************************************************************)
EXTENDS Integers, Sequences, FiniteSets, TLC

(***************************************************************************)
(* Bounds of the model.                                                    *)
(***************************************************************************)
\* largest value typed into the "Questions" field
MaxNumQuestions == 2
\* largest value typed into the "Numbers per Question" field
MaxNumbersPerQuestion == 3
\* Math.random() returns k / RandDenom
RandDenom == 1000
\* number of Math.random() streams a game can draw its batch from (Spec)
RandSteps == 3
\* number of evenly spaced Math.random() results per call (GenSpec)
GenRandSteps == 4
\* largest numbersPerQuestion generateQuestion is run with (GenSpec)
MaxGenNumbers == 3

(***************************************************************************)
(* Math.random(): a result is the rational num / RandDenom in [0, 1),      *)
(* carried as its numerator.                                               *)
(***************************************************************************)
\* the j-th of k evenly spaced results, from 0 to (RandDenom - 1) / RandDenom
Sample(j, k) == (j * (RandDenom - 1)) \div (k - 1)

\* Math.floor(r * n)
FloorMul(r, n) == (r * n) \div RandDenom

\* r < 0.5
LessThanHalf(r) == 2 * r < RandDenom

DigitTypeList == <<"1digit", "2digit", "3digit">>

DigitTypeSet == {DigitTypeList[k] : k \in 1..Len(DigitTypeList)}

IsEnabled(s, d) == s.digitTypes[d]

\* enabledTypes of generateNumber, in push order, with the 1-digit default
EnabledTypes(s) ==
  LET picked == SelectSeq(DigitTypeList, LAMBDA d : IsEnabled(s, d))
  IN  IF Len(picked) = 0 THEN <<"1digit">> ELSE picked

\* A generateNumber whose 2-digit range is 100 wide.
generateNumberWide(s, rType, rValue) ==
  LET enabledTypes == EnabledTypes(s)
      randomType == enabledTypes[FloorMul(rType, Len(enabledTypes)) + 1]
  IN  IF randomType = "1digit" THEN FloorMul(rValue, 9) + 1
      ELSE IF randomType = "2digit" THEN FloorMul(rValue, 100) + 10
      ELSE FloorMul(rValue, 900) + 100

\* generateNumber: rType picks the digit type, rValue the value in its range
generateNumber(s, rType, rValue) ==
  LET enabledTypes == EnabledTypes(s)
      randomType == enabledTypes[FloorMul(rType, Len(enabledTypes)) + 1]
  IN  IF randomType = "1digit" THEN FloorMul(rValue, 9) + 1
      ELSE IF randomType = "2digit" THEN FloorMul(rValue, 90) + 10
      ELSE FloorMul(rValue, 900) + 100

\* does the loop body call Math.random() to choose the operator?
DrawsOp(s, runningTotal, nextNumber) ==
  s.operations # "addition" /\ runningTotal > nextNumber

\* the operator chosen for nextNumber
ChooseOp(s, runningTotal, nextNumber, rOp) ==
  IF s.operations = "addition" THEN "+"
  ELSE IF runningTotal > nextNumber
       THEN (IF LessThanHalf(rOp) THEN "+" ELSE "-")
       ELSE "+"

\* the guard of the repair branch
NeedsRepair(op, runningTotal, nextNumber) ==
  op = "-" /\ runningTotal - nextNumber < 0

\* A loop body without the comparison of runningTotal with nextNumber and
\* without the repair branch.
QuestionStepUnguarded(s, runningTotal, r) ==
  LET n0 == generateNumber(s, r[1], r[2])
  IN  [op |-> IF s.operations = "addition" THEN "+"
              ELSE IF LessThanHalf(r[3]) THEN "+" ELSE "-",
       nextNumber |-> n0,
       used |-> IF s.operations = "addition" THEN 2 ELSE 3,
       repaired |-> FALSE]

\* A loop body that never looks at settings.operations.
QuestionStepIgnoresMode(s, runningTotal, r) ==
  LET n0 == generateNumber(s, r[1], r[2])
  IN  [op |-> IF runningTotal > n0
              THEN (IF LessThanHalf(r[3]) THEN "+" ELSE "-")
              ELSE "+",
       nextNumber |-> n0,
       used |-> IF runningTotal > n0 THEN 3 ELSE 2,
       repaired |-> FALSE]

\* A loop body that compares runningTotal with nextNumber by >=.
QuestionStepInclusive(s, runningTotal, r) ==
  LET n0 == generateNumber(s, r[1], r[2])
      draws == s.operations # "addition" /\ runningTotal >= n0
  IN  [op |-> IF draws /\ ~LessThanHalf(r[3]) THEN "-" ELSE "+",
       nextNumber |-> n0,
       used |-> IF draws THEN 3 ELSE 2,
       repaired |-> FALSE]

\* A loop body that draws the operator without comparing runningTotal with
\* nextNumber and leaves it to the repair branch.
QuestionStepRepairOnly(s, runningTotal, r) ==
  LET n0 == generateNumber(s, r[1], r[2])
      k == IF s.operations = "addition" THEN 2 ELSE 3
      op0 == IF s.operations = "addition" THEN "+"
             ELSE IF LessThanHalf(r[3]) THEN "+" ELSE "-"
      repair == NeedsRepair(op0, runningTotal, n0)
      redraw == repair /\ runningTotal > 1
  IN  [op |-> IF repair /\ ~redraw THEN "+" ELSE op0,
       nextNumber |-> IF redraw THEN FloorMul(r[k + 1], runningTotal - 1) + 1
                      ELSE n0,
       used |-> IF redraw THEN k + 1 ELSE k,
       repaired |-> repair]

\* One iteration of generateQuestion's loop up to the two pushes: r holds the
\* next four Math.random() results, consumed in call order; used counts the
\* calls made, repaired tells whether the repair branch was entered.
QuestionStep(s, runningTotal, r) ==
  LET n0 == generateNumber(s, r[1], r[2])
      k == IF DrawsOp(s, runningTotal, n0) THEN 3 ELSE 2
      op0 == ChooseOp(s, runningTotal, n0, r[3])
      repair == NeedsRepair(op0, runningTotal, n0)
      redraw == repair /\ runningTotal > 1
  IN  [op |-> IF repair /\ ~redraw THEN "+" ELSE op0,
       nextNumber |-> IF redraw THEN FloorMul(r[k + 1], runningTotal - 1) + 1
                      ELSE n0,
       used |-> IF redraw THEN k + 1 ELSE k,
       repaired |-> repair]

\* A running total that is always added to.
ApplyOpAlwaysAdds(runningTotal, op, nextNumber) == runningTotal + nextNumber

\* runningTotal after the step
ApplyOp(runningTotal, op, nextNumber) ==
  IF op = "+" THEN runningTotal + nextNumber ELSE runningTotal - nextNumber

\* A loop that runs once more.
LoopContinuesInclusive(s, i) == i <= s.numbersPerQuestion

\* the loop condition of generateQuestion
LoopContinues(s, i) == i < s.numbersPerQuestion

\* the loop condition of startGame's batch loop
BatchContinues(s, i) == i < s.numQuestions

EmptyQuestion == [numbers |-> <<>>, operations |-> <<>>, answer |-> 0]

(***************************************************************************)
(* A stream of Math.random() results: the call number pos (from 0) of      *)
(* stream seed returns Stream(seed, pos); startGame draws a whole batch    *)
(* from one stream.                                                        *)
(***************************************************************************)
Seeds == 0..(RandSteps - 1)

Stream(seed, pos) == Sample((seed + pos) % RandSteps, RandSteps)

NextFour(seed, pos) == [k \in 1..4 |-> Stream(seed, pos + k - 1)]

\* Iteration i of generateQuestion's for loop, its test included: what it
\* pushes, runningTotal after it and pos, the number of Math.random() calls
\* made so far; nothing is pushed once the loop condition fails.
QuestionIteration(s, runningTotal, i, seed, pos) ==
  IF LoopContinues(s, i)
  THEN LET st == QuestionStep(s, runningTotal, NextFour(seed, pos))
       IN  [numbers |-> <<st.nextNumber>>, operations |-> <<st.op>>,
            runningTotal |-> ApplyOp(runningTotal, st.op, st.nextNumber),
            pos |-> pos + st.used]
  ELSE [numbers |-> <<>>, operations |-> <<>>,
        runningTotal |-> runningTotal, pos |-> pos]

RECURSIVE QuestionLoop(_, _, _, _, _, _)
\* The iterations lo..hi-1 of the for loop in index order, the second half
\* continuing from the runningTotal and pos the first half leaves; halving
\* keeps the nesting of the evaluation logarithmic in the length of the loop.
QuestionLoop(s, runningTotal, lo, hi, seed, pos) ==
  IF hi <= lo + 1 THEN QuestionIteration(s, runningTotal, lo, seed, pos)
  ELSE LET mid == (lo + hi) \div 2
           left == QuestionLoop(s, runningTotal, lo, mid, seed, pos)
           right == QuestionLoop(s, left.runningTotal, mid, hi, seed, left.pos)
       IN  [numbers |-> left.numbers \o right.numbers,
            operations |-> left.operations \o right.operations,
            runningTotal |-> right.runningTotal, pos |-> right.pos]

\* generateQuestion called at position pos of the stream: the loop tests its
\* condition at i = 1..numbersPerQuestion
generateQuestion(s, seed, pos) ==
  LET first == generateNumber(s, Stream(seed, pos), Stream(seed, pos + 1))
      loop == QuestionLoop(s, first, 1, s.numbersPerQuestion + 1, seed, pos + 2)
  IN  [question |-> [numbers |-> <<first>> \o loop.numbers,
                     operations |-> loop.operations,
                     answer |-> loop.runningTotal],
       pos |-> loop.pos]

\* Iteration i of startGame's batch loop, its test included
BatchIteration(s, i, seed, pos) ==
  IF BatchContinues(s, i)
  THEN LET g == generateQuestion(s, seed, pos)
       IN  [questions |-> <<g.question>>, pos |-> g.pos]
  ELSE [questions |-> <<>>, pos |-> pos]

RECURSIVE BatchLoop(_, _, _, _, _)
\* the iterations lo..hi-1 of the batch loop in index order, by halves
BatchLoop(s, lo, hi, seed, pos) ==
  IF hi <= lo + 1 THEN BatchIteration(s, lo, seed, pos)
  ELSE LET mid == (lo + hi) \div 2
           left == BatchLoop(s, lo, mid, seed, pos)
           right == BatchLoop(s, mid, hi, seed, left.pos)
       IN  [questions |-> left.questions \o right.questions,
            pos |-> right.pos]

\* the questions startGame generates: the loop tests its condition at
\* i = 0..numQuestions
GenerateBatch(s, seed) == BatchLoop(s, 0, s.numQuestions + 1, seed, 0).questions

(***************************************************************************)
(* Number.prototype.toString and parseInt on decimal text; text is a       *)
(* sequence of one-character strings.                                      *)
(***************************************************************************)
DigitChars == <<"0", "1", "2", "3", "4", "5", "6", "7", "8", "9">>

RECURSIVE Digits(_)
Digits(n) ==
  IF n < 10 THEN <<DigitChars[n + 1]>>
  ELSE Digits(n \div 10) \o <<DigitChars[(n % 10) + 1]>>

NumberToString(n) == IF n < 0 THEN <<"-">> \o Digits(0 - n) ELSE Digits(n)

DigitValue(c) == (CHOOSE k \in 1..10 : DigitChars[k] = c) - 1

RECURSIVE ParseDigits(_, _)
ParseDigits(text, acc) ==
  IF text = <<>> THEN acc
  ELSE ParseDigits(Tail(text), 10 * acc + DigitValue(Head(text)))

\* parseInt of a text the number input accepts: an optional sign and digits
ParseInt(text) ==
  IF Head(text) = "-" THEN 0 - ParseDigits(Tail(text), 0)
  ELSE ParseDigits(text, 0)

CalculatingText == <<"Calculating...">>

(***************************************************************************)
(* State.  The component's useState cells keep their names; timer is the   *)
(* timeout armed by the game-logic effect (cleared by its cleanup), delay   *)
(* its delay in milliseconds (0 when none is armed), pending                *)
(* the timeouts no cleanup clears (startGame's and the nested get-ready     *)
(* one) with the values their closures captured, alertShown the text of the *)
(* alert() raised by the last handler.  lastOp, getReadyVisits,             *)
(* completeVisits and revealed record the run: the last handler, and since  *)
(* the last start or restart the entries into Get-Ready, the entries into   *)
(* the results screen and the (question, operand) cursors revealed.         *)
(* numbers, operations, runningTotal, genI, genPc and generated are the     *)
(* locals, position and return value of generateQuestion in GenSpec, and    *)
(* repaired records whether its repair branch has been entered.             *)
(***************************************************************************)
VARIABLES settings, gameState, nextQuestionNumber, currentQuestion,
          currentNumberIndex, currentNumbers, currentOperations,
          showingAnswer, calculatingAnswer, showingGetReady,
          flashingBetweenNumbers, answer, allQuestions, displayNumber,
          isPaused, timer, delay, pending, alertShown, lastOp, getReadyVisits,
          completeVisits, revealed, numbers, operations, runningTotal, genI,
          genPc, generated, repaired

genVars ==
  <<numbers, operations, runningTotal, genI, genPc, generated, repaired>>

historyVars == <<getReadyVisits, completeVisits, revealed>>

presentedVars == <<currentNumbers, currentOperations, answer, displayNumber>>

flagVars == <<showingAnswer, calculatingAnswer, showingGetReady,
              flashingBetweenNumbers>>

gameVars == <<gameState, nextQuestionNumber, currentQuestion,
              currentNumberIndex, flagVars, presentedVars, allQuestions,
              isPaused, timer, delay, pending, historyVars>>

vars == <<settings, gameVars, alertShown, lastOp, genVars>>

\* the sequencer cursor: question index, operand index and phase flags
Cursor == <<currentQuestion, currentNumberIndex, showingGetReady,
            flashingBetweenNumbers, calculatingAnswer, showingAnswer>>

DigitTypeChoices == [DigitTypeSet -> BOOLEAN]

\* the settings the setup screen can hold within the bounds, at the level
\* loadSettings defaults to
SettingsSpace ==
  [digitTypes : DigitTypeChoices, operations : {"addition", "both"},
   numQuestions : 0..MaxNumQuestions,
   numbersPerQuestion : 0..MaxNumbersPerQuestion, level : {1}]

GenIdle ==
  /\ numbers = <<>>
  /\ operations = <<>>
  /\ runningTotal = 0
  /\ genI = 0
  /\ genPc = "idle"
  /\ generated = EmptyQuestion
  /\ repaired = FALSE

\* the useState initial values
Mounted ==
  /\ gameState = "setup"
  /\ nextQuestionNumber = 1
  /\ currentQuestion = 0
  /\ currentNumberIndex = 0
  /\ currentNumbers = <<>>
  /\ currentOperations = <<>>
  /\ showingAnswer = FALSE
  /\ calculatingAnswer = FALSE
  /\ showingGetReady = FALSE
  /\ flashingBetweenNumbers = FALSE
  /\ answer = 0
  /\ allQuestions = <<>>
  /\ displayNumber = <<>>
  /\ isPaused = FALSE
  /\ timer = "none"
  /\ delay = 0
  /\ pending = {}
  /\ alertShown = ""
  /\ lastOp = "mount"
  /\ getReadyVisits = 0
  /\ completeVisits = 0
  /\ revealed = <<>>

\* settings is what loadSettings returns: the settings updateSettings saved
Init ==
  /\ settings \in SettingsSpace
  /\ Mounted
  /\ GenIdle

(***************************************************************************)
(* The game-logic effect: which timeout it arms for a state.               *)
(***************************************************************************)
\* gs, paused, ready, qs, cq, ans, calc, flash, idx, nums: gameState,
\* isPaused, showingGetReady, allQuestions, currentQuestion, showingAnswer,
\* calculatingAnswer, flashingBetweenNumbers, currentNumberIndex,
\* currentNumbers
\* An effect that does not look at gameState.
EffectTimerAnyState(gs, paused, ready, qs, cq, ans, calc, flash, idx, nums) ==
  IF paused \/ ready THEN "none"
  ELSE IF cq + 1 \notin DOMAIN qs THEN "none"
  ELSE IF ans THEN "answer"
  ELSE IF calc THEN "calculating"
  ELSE IF flash THEN "flash"
  ELSE IF idx < Len(nums) THEN "number"
  ELSE "none"

\* An effect that does not return early during Get Ready.
EffectTimerInGetReady(gs, paused, ready, qs, cq, ans, calc, flash, idx, nums) ==
  IF gs # "playing" \/ paused THEN "none"
  ELSE IF cq + 1 \notin DOMAIN qs THEN "none"
  ELSE IF ans THEN "answer"
  ELSE IF calc THEN "calculating"
  ELSE IF flash THEN "flash"
  ELSE IF idx < Len(nums) THEN "number"
  ELSE "none"

EffectTimer(gs, paused, ready, qs, cq, ans, calc, flash, idx, nums) ==
  IF gs # "playing" \/ paused \/ ready THEN "none"
  ELSE IF cq + 1 \notin DOMAIN qs THEN "none"
  ELSE IF ans THEN "answer"
  ELSE IF calc THEN "calculating"
  ELSE IF flash THEN "flash"
  ELSE IF idx < Len(nums) THEN "number"
  ELSE "none"

Min(a, b) == IF a < b THEN a ELSE b

Max(a, b) == IF a > b THEN a ELSE b

\* the levels the setup screen offers
Levels == 1..5

\* A getDelays without the lower limits.
getDelaysNoFloor(level) ==
  [numberDelay |-> 20 - (level - 1) * 5, answerDelay |-> 50 - (level - 1) * 6]

\* getDelays, both delays in tenths of a second: 0.5, 2, 0.8, 5 and 0.6
\* seconds are 5, 20, 8, 50 and 6 tenths
getDelays(level) ==
  [numberDelay |-> Max(5, 20 - (level - 1) * 5),
   answerDelay |-> Max(8, 50 - (level - 1) * 6)]

\* tenths of a second * 1000, the milliseconds passed to setTimeout
Milliseconds(tenths) == tenths * 100

\* the delay of the timeout set after the answer is shown
AnswerDwell == 2000

\* the delay of the timeout set during the flash between operands
FlashGap == 200

\* the delay of startGame's timeout and of the nested Get-Ready timeout
GetReadyDwell == 1000

\* the delay of the timeout the effect arms, 0 when it arms none
EffectDelay(kind, level) ==
  IF kind = "answer" THEN AnswerDwell
  ELSE IF kind = "calculating"
       THEN Milliseconds(getDelays(level).answerDelay)
  ELSE IF kind = "flash" THEN FlashGap
  ELSE IF kind = "number" THEN Milliseconds(getDelays(level).numberDelay)
  ELSE 0

\* the effect re-run (cleanup, then the body) after a handler's state updates
GameLogicEffect ==
  /\ timer' = EffectTimer(gameState', isPaused', showingGetReady',
                          allQuestions', currentQuestion', showingAnswer',
                          calculatingAnswer', flashingBetweenNumbers',
                          currentNumberIndex', currentNumbers')
  /\ delay' = EffectDelay(timer', settings'.level)

(***************************************************************************)
(* The setup screen.                                                       *)
(***************************************************************************)
NoDigitAlert == "Please select at least one number type!"

NumbersAlert == "Numbers per question must be at least 2!"

QuestionsAlert == "Number of questions must be at least 1!"

HasDigitType(s) == \E d \in DigitTypeSet : IsEnabled(s, d)

\* A validation without the check of numQuestions.
StartGameAlertNoCount(s) ==
  IF ~HasDigitType(s) THEN NoDigitAlert
  ELSE IF s.numbersPerQuestion < 2 THEN NumbersAlert
  ELSE ""

\* A validation without the check of the digit types.
StartGameAlertNoDigit(s) ==
  IF s.numbersPerQuestion < 2 THEN NumbersAlert
  ELSE IF s.numQuestions < 1 THEN QuestionsAlert
  ELSE ""

\* the alert startGame raises before it returns early, "" when it goes on
StartGameAlert(s) ==
  IF ~HasDigitType(s) THEN NoDigitAlert
  ELSE IF s.numbersPerQuestion < 2 THEN NumbersAlert
  ELSE IF s.numQuestions < 1 THEN QuestionsAlert
  ELSE ""

\* what can be typed into a number field: nothing, or a number
TypedTexts(max) == {<<>>} \cup {NumberToString(n) : n \in (0 - 1)..max}

\* updateSettings
UpdateSettings(new) ==
  /\ gameState = "setup"
  /\ settings' = new
  /\ alertShown' = ""
  /\ lastOp' = "settings"
  /\ UNCHANGED <<gameVars, genVars>>

\* onChange of a digit type checkbox: e.target.checked is the box toggled
ToggleDigitType ==
  \E d \in DigitTypeSet :
    UpdateSettings([settings EXCEPT !.digitTypes[d] = ~IsEnabled(settings, d)])

SetOperations ==
  \E o \in {"addition", "both"} :
    UpdateSettings([settings EXCEPT !.operations = o])

\* A "Questions" onChange that does not clamp at 50.
TypeNumQuestionsUnclamped(value) ==
  IF value = <<>>
  THEN UpdateSettings([settings EXCEPT !.numQuestions = 0])
  ELSE LET num == ParseInt(value)
       IN  /\ num >= 0
           /\ UpdateSettings([settings EXCEPT !.numQuestions = Max(0, num)])

\* onClick of a difficulty level button
SetLevel ==
  \E level \in Levels : UpdateSettings([settings EXCEPT !.level = level])

\* onChange of the "Questions" field with e.target.value = value
TypeNumQuestions(value) ==
  IF value = <<>>
  THEN UpdateSettings([settings EXCEPT !.numQuestions = 0])
  ELSE LET num == ParseInt(value)
       IN  /\ num >= 0
           /\ UpdateSettings([settings EXCEPT
                                !.numQuestions = Min(50, Max(0, num))])

ChangeNumQuestions ==
  \E value \in TypedTexts(MaxNumQuestions) : TypeNumQuestions(value)

\* onBlur of the "Questions" field
BlurNumQuestions ==
  /\ settings.numQuestions = 0
  /\ UpdateSettings([settings EXCEPT !.numQuestions = 1])

\* onChange of the "Numbers per Question" field with e.target.value = value
TypeNumbersPerQuestion(value) ==
  IF value = <<>>
  THEN UpdateSettings([settings EXCEPT !.numbersPerQuestion = 0])
  ELSE LET num == ParseInt(value)
       IN  /\ num >= 0
           /\ UpdateSettings([settings EXCEPT
                                !.numbersPerQuestion = Min(20, Max(0, num))])

ChangeNumbersPerQuestion ==
  \E value \in TypedTexts(MaxNumbersPerQuestion) :
    TypeNumbersPerQuestion(value)

\* onBlur of the "Numbers per Question" field
BlurNumbersPerQuestion ==
  /\ settings.numbersPerQuestion < 2
  /\ UpdateSettings([settings EXCEPT !.numbersPerQuestion = 2])

(***************************************************************************)
(* Which buttons the rendered screen offers.                               *)
(***************************************************************************)
StartOffered == gameState = "setup"

\* A playing screen that keeps its buttons during Get Ready.
ControlsOfferedAlways == gameState = "playing"

\* the playing screen renders Pause and Restart only when not in Get Ready
ControlsOffered == gameState = "playing" /\ ~showingGetReady

PauseOffered == ControlsOffered

ResumeOffered == gameState = "paused"

RestartOffered ==
  ControlsOffered \/ gameState = "paused" \/ gameState = "results"

(***************************************************************************)
(* startGame, pauseGame, resumeGame, restartGame.                          *)
(***************************************************************************)
\* the timeout startGame sets, with the batch its closure holds
StartTimer(questions) ==
  [kind |-> "start", currentQuestion |-> 0, allQuestions |-> questions,
   delay |-> GetReadyDwell]

\* the timeout nested in the answer timeout, with the values it captured
GetReadyTimer(cq, questions) ==
  [kind |-> "getReady", currentQuestion |-> cq, allQuestions |-> questions,
   delay |-> GetReadyDwell]

StartGame ==
  /\ StartOffered
  /\ lastOp' = "startGame"
  /\ alertShown' = StartGameAlert(settings)
  /\ IF StartGameAlert(settings) # ""
     THEN UNCHANGED <<settings, gameVars, genVars>>
     ELSE \E seed \in Seeds :
            LET questions == GenerateBatch(settings, seed)
            IN  /\ allQuestions' = questions
                /\ currentQuestion' = 0
                /\ nextQuestionNumber' = 1
                /\ currentNumberIndex' = 0
                /\ calculatingAnswer' = FALSE
                /\ showingAnswer' = FALSE
                /\ showingGetReady' = TRUE
                /\ flashingBetweenNumbers' = FALSE
                /\ isPaused' = FALSE
                /\ gameState' = "playing"
                /\ pending' = pending \cup {StartTimer(questions)}
                /\ getReadyVisits' = 1
                /\ completeVisits' = 0
                /\ revealed' = <<>>
                /\ UNCHANGED <<settings, presentedVars, genVars>>
                /\ GameLogicEffect

\* A pauseGame that also rewinds the operand index.
PauseGameRewinds ==
  /\ PauseOffered
  /\ isPaused' = TRUE
  /\ gameState' = "paused"
  /\ currentNumberIndex' = 0
  /\ alertShown' = ""
  /\ lastOp' = "pauseGame"
  /\ UNCHANGED <<settings, nextQuestionNumber, currentQuestion, flagVars,
                 presentedVars, allQuestions, pending, historyVars, genVars>>
  /\ GameLogicEffect

PauseGame ==
  /\ PauseOffered
  /\ isPaused' = TRUE
  /\ gameState' = "paused"
  /\ alertShown' = ""
  /\ lastOp' = "pauseGame"
  /\ UNCHANGED <<settings, nextQuestionNumber, currentQuestion,
                 currentNumberIndex, flagVars, presentedVars, allQuestions,
                 pending, historyVars, genVars>>
  /\ GameLogicEffect

\* A resumeGame that generates the batch again.
ResumeGameRegenerates ==
  /\ ResumeOffered
  /\ isPaused' = FALSE
  /\ gameState' = "playing"
  /\ \E seed \in Seeds : allQuestions' = GenerateBatch(settings, seed)
  /\ alertShown' = ""
  /\ lastOp' = "resumeGame"
  /\ UNCHANGED <<settings, nextQuestionNumber, currentQuestion,
                 currentNumberIndex, flagVars, presentedVars, pending,
                 historyVars, genVars>>
  /\ GameLogicEffect

\* A resumeGame that leaves isPaused set.
ResumeGameStaysPaused ==
  /\ ResumeOffered
  /\ gameState' = "playing"
  /\ alertShown' = ""
  /\ lastOp' = "resumeGame"
  /\ UNCHANGED <<settings, nextQuestionNumber, currentQuestion,
                 currentNumberIndex, flagVars, presentedVars, allQuestions,
                 isPaused, pending, historyVars, genVars>>
  /\ GameLogicEffect

ResumeGame ==
  /\ ResumeOffered
  /\ isPaused' = FALSE
  /\ gameState' = "playing"
  /\ alertShown' = ""
  /\ lastOp' = "resumeGame"
  /\ UNCHANGED <<settings, nextQuestionNumber, currentQuestion,
                 currentNumberIndex, flagVars, presentedVars, allQuestions,
                 pending, historyVars, genVars>>
  /\ GameLogicEffect

\* A restartGame that keeps the operand index.
RestartGameKeepsIndex ==
  /\ RestartOffered
  /\ gameState' = "setup"
  /\ currentQuestion' = 0
  /\ nextQuestionNumber' = 1
  /\ showingAnswer' = FALSE
  /\ calculatingAnswer' = FALSE
  /\ showingGetReady' = FALSE
  /\ flashingBetweenNumbers' = FALSE
  /\ isPaused' = FALSE
  /\ allQuestions' = <<>>
  /\ alertShown' = ""
  /\ lastOp' = "restartGame"
  /\ getReadyVisits' = 0
  /\ completeVisits' = 0
  /\ revealed' = <<>>
  /\ UNCHANGED <<settings, currentNumberIndex, presentedVars, pending,
                 genVars>>
  /\ GameLogicEffect

RestartGame ==
  /\ RestartOffered
  /\ gameState' = "setup"
  /\ currentQuestion' = 0
  /\ nextQuestionNumber' = 1
  /\ currentNumberIndex' = 0
  /\ showingAnswer' = FALSE
  /\ calculatingAnswer' = FALSE
  /\ showingGetReady' = FALSE
  /\ flashingBetweenNumbers' = FALSE
  /\ isPaused' = FALSE
  /\ allQuestions' = <<>>
  /\ alertShown' = ""
  /\ lastOp' = "restartGame"
  /\ getReadyVisits' = 0
  /\ completeVisits' = 0
  /\ revealed' = <<>>
  /\ UNCHANGED <<settings, presentedVars, pending, genVars>>
  /\ GameLogicEffect

(***************************************************************************)
(* The timeout callbacks.                                                  *)
(***************************************************************************)
\* the callback of startGame's timeout
StartTimeout ==
  \E t \in pending :
    /\ t.kind = "start"
    /\ pending' = pending \ {t}
    /\ showingGetReady' = FALSE
    /\ IF Len(t.allQuestions) > 0
       THEN /\ currentNumbers' = t.allQuestions[1].numbers
            /\ currentOperations' = t.allQuestions[1].operations
            /\ answer' = t.allQuestions[1].answer
            /\ displayNumber' = NumberToString(t.allQuestions[1].numbers[1])
            /\ revealed' = Append(revealed,
                                  <<currentQuestion, currentNumberIndex>>)
       ELSE UNCHANGED <<presentedVars, revealed>>
    /\ alertShown' = ""
    /\ lastOp' = "startTimeout"
    /\ UNCHANGED <<settings, gameState, nextQuestionNumber, currentQuestion,
                   currentNumberIndex, showingAnswer, calculatingAnswer,
                   flashingBetweenNumbers, allQuestions, isPaused,
                   getReadyVisits, completeVisits, genVars>>
    /\ GameLogicEffect

\* A nested timeout that shows the question just answered again.
GetReadyTimeoutSameQuestion ==
  \E t \in pending :
    /\ t.kind = "getReady"
    /\ pending' = pending \ {t}
    /\ LET nextQ == t.allQuestions[t.currentQuestion + 1]
       IN  /\ currentQuestion' = t.currentQuestion
           /\ currentNumberIndex' = 0
           /\ showingGetReady' = FALSE
           /\ currentNumbers' = nextQ.numbers
           /\ currentOperations' = nextQ.operations
           /\ answer' = nextQ.answer
           /\ displayNumber' = NumberToString(nextQ.numbers[1])
    /\ alertShown' = ""
    /\ lastOp' = "getReadyTimeout"
    /\ UNCHANGED <<settings, gameState, nextQuestionNumber, showingAnswer,
                   calculatingAnswer, flashingBetweenNumbers, allQuestions,
                   isPaused, historyVars, genVars>>
    /\ GameLogicEffect

\* the callback of the timeout nested in the answer timeout; reading a
\* question past the end of the captured batch throws after the first three
\* updates
GetReadyTimeout ==
  \E t \in pending :
    /\ t.kind = "getReady"
    /\ pending' = pending \ {t}
    /\ LET nextQuestionNum == t.currentQuestion + 1
       IN  /\ currentQuestion' = nextQuestionNum
           /\ currentNumberIndex' = 0
           /\ showingGetReady' = FALSE
           /\ IF nextQuestionNum + 1 \in DOMAIN t.allQuestions
              THEN LET nextQ == t.allQuestions[nextQuestionNum + 1]
                   IN  /\ currentNumbers' = nextQ.numbers
                       /\ currentOperations' = nextQ.operations
                       /\ answer' = nextQ.answer
                       /\ displayNumber' = NumberToString(nextQ.numbers[1])
                       /\ revealed' = Append(revealed, <<nextQuestionNum, 0>>)
              ELSE UNCHANGED <<presentedVars, revealed>>
    /\ alertShown' = ""
    /\ lastOp' = "getReadyTimeout"
    /\ UNCHANGED <<settings, gameState, nextQuestionNumber, showingAnswer,
                   calculatingAnswer, flashingBetweenNumbers, allQuestions,
                   isPaused, getReadyVisits, completeVisits, genVars>>
    /\ GameLogicEffect

\* An answer timeout that goes on after the last question.
MoreQuestionsInclusive(cq, questions) == cq < Len(questions)

\* An answer timeout that stops one question early.
MoreQuestionsShort(cq, questions) == cq < Len(questions) - 2

\* currentQuestion < allQuestions.length - 1
MoreQuestions(cq, questions) == cq < Len(questions) - 1

\* currentNumberIndex < currentNumbers.length - 1
MoreNumbers(idx, nums) == idx < Len(nums) - 1

\* An answer timeout that also rewinds the operand index for the next
\* question.
AnswerTimeoutRewinds ==
  /\ timer = "answer"
  /\ IF MoreQuestions(currentQuestion, allQuestions)
     THEN /\ nextQuestionNumber' = currentQuestion + 2
          /\ currentNumberIndex' = 0
          /\ showingGetReady' = TRUE
          /\ showingAnswer' = FALSE
          /\ calculatingAnswer' = FALSE
          /\ flashingBetweenNumbers' = FALSE
          /\ pending' = pending \cup
                          {GetReadyTimer(currentQuestion, allQuestions)}
          /\ getReadyVisits' = getReadyVisits + 1
          /\ UNCHANGED <<gameState, completeVisits>>
     ELSE /\ gameState' = "results"
          /\ completeVisits' = completeVisits + 1
          /\ UNCHANGED <<nextQuestionNumber, currentNumberIndex, flagVars,
                         pending, getReadyVisits>>
  /\ alertShown' = ""
  /\ lastOp' = "answerTimeout"
  /\ UNCHANGED <<settings, currentQuestion, presentedVars, allQuestions,
                 isPaused, revealed, genVars>>
  /\ GameLogicEffect

\* the callback of the effect's timeout while the answer is shown
AnswerTimeout ==
  /\ timer = "answer"
  /\ IF MoreQuestions(currentQuestion, allQuestions)
     THEN /\ nextQuestionNumber' = currentQuestion + 2
          /\ showingGetReady' = TRUE
          /\ showingAnswer' = FALSE
          /\ calculatingAnswer' = FALSE
          /\ flashingBetweenNumbers' = FALSE
          /\ pending' = pending \cup
                          {GetReadyTimer(currentQuestion, allQuestions)}
          /\ getReadyVisits' = getReadyVisits + 1
          /\ UNCHANGED <<gameState, completeVisits>>
     ELSE /\ gameState' = "results"
          /\ completeVisits' = completeVisits + 1
          /\ UNCHANGED <<nextQuestionNumber, flagVars, pending,
                         getReadyVisits>>
  /\ alertShown' = ""
  /\ lastOp' = "answerTimeout"
  /\ UNCHANGED <<settings, currentQuestion, currentNumberIndex, presentedVars,
                 allQuestions, isPaused, revealed, genVars>>
  /\ GameLogicEffect

\* A calculating timeout that leaves calculatingAnswer set.
CalculatingTimeoutKeepsFlag ==
  /\ timer = "calculating"
  /\ displayNumber' = NumberToString(answer)
  /\ showingAnswer' = TRUE
  /\ alertShown' = ""
  /\ lastOp' = "calculatingTimeout"
  /\ UNCHANGED <<settings, gameState, nextQuestionNumber, currentQuestion,
                 currentNumberIndex, currentNumbers, currentOperations,
                 calculatingAnswer, showingGetReady, flashingBetweenNumbers,
                 answer, allQuestions, isPaused, pending, historyVars, genVars>>
  /\ GameLogicEffect

\* the callback of the effect's timeout while calculating
CalculatingTimeout ==
  /\ timer = "calculating"
  /\ displayNumber' = NumberToString(answer)
  /\ calculatingAnswer' = FALSE
  /\ showingAnswer' = TRUE
  /\ alertShown' = ""
  /\ lastOp' = "calculatingTimeout"
  /\ UNCHANGED <<settings, gameState, nextQuestionNumber, currentQuestion,
                 currentNumberIndex, currentNumbers, currentOperations,
                 showingGetReady, flashingBetweenNumbers, answer, allQuestions,
                 isPaused, pending, historyVars, genVars>>
  /\ GameLogicEffect

\* A flash timeout that displays the operand shown before the flash.
FlashTimeoutShowsSameOperand ==
  /\ timer = "flash"
  /\ flashingBetweenNumbers' = FALSE
  /\ IF MoreNumbers(currentNumberIndex, currentNumbers)
     THEN /\ currentNumberIndex' = currentNumberIndex + 1
          /\ displayNumber' =
               NumberToString(currentNumbers[currentNumberIndex + 1])
          /\ revealed' = Append(revealed,
                                <<currentQuestion, currentNumberIndex + 1>>)
          /\ UNCHANGED calculatingAnswer
     ELSE /\ displayNumber' = CalculatingText
          /\ calculatingAnswer' = TRUE
          /\ UNCHANGED <<currentNumberIndex, revealed>>
  /\ alertShown' = ""
  /\ lastOp' = "flashTimeout"
  /\ UNCHANGED <<settings, gameState, nextQuestionNumber, currentQuestion,
                 currentNumbers, currentOperations, showingAnswer,
                 showingGetReady, answer, allQuestions, isPaused, pending,
                 getReadyVisits, completeVisits, genVars>>
  /\ GameLogicEffect

\* the callback of the effect's timeout during the flash between operands
FlashTimeout ==
  /\ timer = "flash"
  /\ flashingBetweenNumbers' = FALSE
  /\ IF MoreNumbers(currentNumberIndex, currentNumbers)
     THEN /\ currentNumberIndex' = currentNumberIndex + 1
          /\ displayNumber' =
               NumberToString(currentNumbers[(currentNumberIndex + 1) + 1])
          /\ revealed' = Append(revealed,
                                <<currentQuestion, currentNumberIndex + 1>>)
          /\ UNCHANGED calculatingAnswer
     ELSE /\ displayNumber' = CalculatingText
          /\ calculatingAnswer' = TRUE
          /\ UNCHANGED <<currentNumberIndex, revealed>>
  /\ alertShown' = ""
  /\ lastOp' = "flashTimeout"
  /\ UNCHANGED <<settings, gameState, nextQuestionNumber, currentQuestion,
                 currentNumbers, currentOperations, showingAnswer,
                 showingGetReady, answer, allQuestions, isPaused, pending,
                 getReadyVisits, completeVisits, genVars>>
  /\ GameLogicEffect

\* A number timeout that reveals the next operand without the flash gap.
NumberTimeoutSkipsFlash ==
  /\ timer = "number"
  /\ IF MoreNumbers(currentNumberIndex, currentNumbers)
     THEN /\ currentNumberIndex' = currentNumberIndex + 1
          /\ displayNumber' =
               NumberToString(currentNumbers[(currentNumberIndex + 1) + 1])
          /\ revealed' = Append(revealed,
                                <<currentQuestion, currentNumberIndex + 1>>)
          /\ UNCHANGED calculatingAnswer
     ELSE /\ displayNumber' = CalculatingText
          /\ calculatingAnswer' = TRUE
          /\ UNCHANGED <<currentNumberIndex, revealed>>
  /\ alertShown' = ""
  /\ lastOp' = "numberTimeout"
  /\ UNCHANGED <<settings, gameState, nextQuestionNumber, currentQuestion,
                 currentNumbers, currentOperations, showingAnswer,
                 showingGetReady, flashingBetweenNumbers, answer, allQuestions,
                 isPaused, pending, getReadyVisits, completeVisits, genVars>>
  /\ GameLogicEffect

\* the callback of the effect's timeout while an operand is shown
NumberTimeout ==
  /\ timer = "number"
  /\ IF MoreNumbers(currentNumberIndex, currentNumbers)
     THEN /\ flashingBetweenNumbers' = TRUE
          /\ UNCHANGED <<displayNumber, calculatingAnswer>>
     ELSE /\ displayNumber' = CalculatingText
          /\ calculatingAnswer' = TRUE
          /\ UNCHANGED flashingBetweenNumbers
  /\ alertShown' = ""
  /\ lastOp' = "numberTimeout"
  /\ UNCHANGED <<settings, gameState, nextQuestionNumber, currentQuestion,
                 currentNumberIndex, currentNumbers, currentOperations,
                 showingAnswer, showingGetReady, answer, allQuestions,
                 isPaused, pending, historyVars, genVars>>
  /\ GameLogicEffect

Next ==
  \/ ToggleDigitType
  \/ SetOperations
  \/ ChangeNumQuestions
  \/ BlurNumQuestions
  \/ ChangeNumbersPerQuestion
  \/ BlurNumbersPerQuestion
  \/ StartGame
  \/ PauseGame
  \/ ResumeGame
  \/ RestartGame
  \/ StartTimeout
  \/ GetReadyTimeout
  \/ AnswerTimeout
  \/ CalculatingTimeout
  \/ FlashTimeout
  \/ NumberTimeout

Spec == Init /\ [][Next]_vars

(***************************************************************************)
(* LiveSpec: the component with the scheduling of setTimeout: a timeout    *)
(* that stays armed fires.  A timeout the effect's cleanup clears and the  *)
(* next run of the effect arms again starts its delay afresh, so only weak *)
(* fairness holds of the callbacks.                                        *)
(***************************************************************************)
TimeoutFairness ==
  /\ WF_vars(StartTimeout)
  /\ WF_vars(GetReadyTimeout)
  /\ WF_vars(AnswerTimeout)
  /\ WF_vars(CalculatingTimeout)
  /\ WF_vars(FlashTimeout)
  /\ WF_vars(NumberTimeout)

LiveSpec == Init /\ [][Next]_vars /\ TimeoutFairness

(***************************************************************************)
(* EditSpec: the component mounted with the built-in defaults of           *)
(* loadSettings, the two number fields edited with texts around the limits *)
(* of their onChange handlers.                                             *)
(***************************************************************************)
\* the settings loadSettings returns when nothing is saved
DefaultSettings ==
  [digitTypes |-> [d \in DigitTypeSet |-> d # "3digit"],
   operations |-> "both", numQuestions |-> 10, numbersPerQuestion |-> 10,
   level |-> 1]

EditInit ==
  /\ settings = DefaultSettings
  /\ Mounted
  /\ GenIdle

\* texts typed into the "Questions" field
EditQuestionTexts == {<<>>} \cup {NumberToString(n) : n \in {0 - 1, 0, 1, 51}}

\* texts typed into the "Numbers per Question" field
EditNumberTexts == {<<>>} \cup {NumberToString(n) : n \in {0 - 1, 1, 2, 21}}

EditNumQuestions == \E value \in EditQuestionTexts : TypeNumQuestions(value)

EditNumbersPerQuestion ==
  \E value \in EditNumberTexts : TypeNumbersPerQuestion(value)

EditNext ==
  \/ EditNumQuestions
  \/ BlurNumQuestions
  \/ EditNumbersPerQuestion
  \/ BlurNumbersPerQuestion
  \/ StartGame
  \/ PauseGame
  \/ ResumeGame
  \/ RestartGame
  \/ StartTimeout
  \/ GetReadyTimeout
  \/ AnswerTimeout
  \/ CalculatingTimeout
  \/ FlashTimeout
  \/ NumberTimeout

EditSpec == EditInit /\ [][EditNext]_vars

(***************************************************************************)
(* DelaySpec: games of two questions of two operands played at every       *)
(* difficulty level.                                                       *)
(***************************************************************************)
DelaySettingsSpace ==
  {[DefaultSettings EXCEPT !.numQuestions = 2, !.numbersPerQuestion = 2,
                           !.level = level] : level \in Levels}

DelayInit ==
  /\ settings \in DelaySettingsSpace
  /\ Mounted
  /\ GenIdle

DelayNext ==
  \/ SetLevel
  \/ StartGame
  \/ PauseGame
  \/ ResumeGame
  \/ RestartGame
  \/ StartTimeout
  \/ GetReadyTimeout
  \/ AnswerTimeout
  \/ CalculatingTimeout
  \/ FlashTimeout
  \/ NumberTimeout

DelaySpec == DelayInit /\ [][DelayNext]_vars

(***************************************************************************)
(* GenSpec: generateQuestion, one loop iteration per step, for every       *)
(* configuration startGame lets through.                                   *)
(***************************************************************************)
GenSamples == {Sample(j, GenRandSteps) : j \in 0..(GenRandSteps - 1)}

GenSettingsSpace ==
  {s \in [digitTypes : DigitTypeChoices, operations : {"addition", "both"},
          numQuestions : {1}, numbersPerQuestion : 0..MaxGenNumbers,
          level : {1}] :
     StartGameAlert(s) = ""}

GenInit ==
  /\ settings \in GenSettingsSpace
  /\ Mounted
  /\ GenIdle

\* let runningTotal = generateNumber(); numbers.push(runningTotal)
GenBegin ==
  /\ genPc = "idle"
  /\ \E rType \in GenSamples, rValue \in GenSamples :
       /\ runningTotal' = generateNumber(settings, rType, rValue)
       /\ numbers' = <<generateNumber(settings, rType, rValue)>>
  /\ operations' = <<>>
  /\ genI' = 1
  /\ genPc' = "loop"
  /\ UNCHANGED <<settings, gameVars, alertShown, lastOp, generated, repaired>>

\* the Math.random() results an iteration can see: the third and fourth
\* calls range over the samples only when the iteration makes them
IterationDraws(s, total) ==
  {r \in [1..4 -> GenSamples] :
     LET used == QuestionStep(s, total, r).used
     IN  \A k \in 1..4 : k > used => r[k] = 0}

\* one iteration of the for loop
GenIterate ==
  /\ genPc = "loop"
  /\ LoopContinues(settings, genI)
  /\ \E r \in IterationDraws(settings, runningTotal) :
       LET st == QuestionStep(settings, runningTotal, r)
       IN  /\ operations' = Append(operations, st.op)
           /\ numbers' = Append(numbers, st.nextNumber)
           /\ runningTotal' = ApplyOp(runningTotal, st.op, st.nextNumber)
           /\ repaired' = (repaired \/ st.repaired)
  /\ genI' = genI + 1
  /\ UNCHANGED <<settings, gameVars, alertShown, lastOp, genPc, generated>>

\* return { numbers, operations, answer: runningTotal }
GenReturn ==
  /\ genPc = "loop"
  /\ ~LoopContinues(settings, genI)
  /\ generated' = [numbers |-> numbers, operations |-> operations,
                   answer |-> runningTotal]
  /\ genPc' = "done"
  /\ UNCHANGED <<settings, gameVars, alertShown, lastOp, numbers, operations,
                 runningTotal, genI, repaired>>

GenNext == GenBegin \/ GenIterate \/ GenReturn

GenSpec == GenInit /\ [][GenNext]_vars

(***************************************************************************)
(* Properties of the generator.                                            *)
(***************************************************************************)
RECURSIVE EvalPrefix(_, _, _)
\* the left-to-right value of the first k operands of (nums, ops)
EvalPrefix(nums, ops, k) ==
  IF k = 1 THEN nums[1]
  ELSE IF ops[k - 1] = "+"
       THEN EvalPrefix(nums, ops, k - 1) + nums[k]
       ELSE EvalPrefix(nums, ops, k - 1) - nums[k]

PrefixesNonNegative(nums, ops) ==
  \A k \in 1..Len(nums) : EvalPrefix(nums, ops, k) >= 0

\* C1: at every point of generateQuestion, and in the question it returns,
\* every left-to-right prefix evaluation of the operands pushed so far with
\* the operators pushed so far is >= 0, and so is the returned answer.
GeneratedPrefixesNonNegative ==
  /\ PrefixesNonNegative(numbers, operations)
  /\ genPc = "done" =>
       /\ PrefixesNonNegative(generated.numbers, generated.operations)
       /\ generated.answer >= 0

\* a returned question of three operands with two subtractions
GeneratedTwoSubtractions ==
  /\ genPc = "done"
  /\ Len(generated.numbers) = 3
  /\ generated.operations = <<"-", "-">>

\* the inclusive range of a digit-size class
DigitRange(d) ==
  IF d = "1digit" THEN 1..9 ELSE IF d = "2digit" THEN 10..99 ELSE 100..999

InEnabledRange(s, n) ==
  \E d \in DigitTypeSet : IsEnabled(s, d) /\ n \in DigitRange(d)

\* C10: every operand generateQuestion pushes, the first and every later one,
\* in both operation modes, lies in the range of a digit-size class enabled in
\* the settings it was generated from.
OperandsInEnabledRange ==
  /\ \A k \in 1..Len(numbers) : InEnabledRange(settings, numbers[k])
  /\ \A k \in 1..Len(generated.numbers) :
       InEnabledRange(settings, generated.numbers[k])

\* a returned question in both-operations mode, two classes enabled, whose
\* operands take the largest 2-digit and the smallest 1-digit value
GeneratedRangeEnds ==
  /\ genPc = "done"
  /\ settings.operations = "both"
  /\ IsEnabled(settings, "1digit")
  /\ IsEnabled(settings, "2digit")
  /\ ~IsEnabled(settings, "3digit")
  /\ \E j, k \in 1..Len(generated.numbers) :
       generated.numbers[j] = 99 /\ generated.numbers[k] = 1 /\ j < k
  /\ "-" \in {generated.operations[k] : k \in 1..Len(generated.operations)}

AllPlus(ops) == \A k \in 1..Len(ops) : ops[k] = "+"

\* C11: in addition-only mode every operator generateQuestion pushes, and
\* every operator of the question it returns, is '+'.
AdditionOnlyAllPlus ==
  settings.operations = "addition" =>
    AllPlus(operations) /\ AllPlus(generated.operations)

\* a returned addition-only question of three operands, the second and the
\* third smaller than the running total before them
GeneratedAdditionOnly ==
  /\ genPc = "done"
  /\ settings.operations = "addition"
  /\ Len(generated.operations) = 2
  /\ generated.numbers[2] < generated.numbers[1]
  /\ generated.numbers[3] < generated.numbers[1] + generated.numbers[2]

\* every '-' of (nums, ops) stands in front of an operand strictly smaller
\* than the running total before it; an operand at least as large as the
\* running total before it has '+' in front
MinusOnlyBelowTotal(nums, ops) ==
  \A k \in 1..Len(ops) :
    LET before == EvalPrefix(nums, ops, k)
    IN  /\ before <= nums[k + 1] => ops[k] = "+"
        /\ ops[k] = "-" => nums[k + 1] < before

\* C12: in addition-and-subtraction mode, each iteration of generateQuestion
\* whose running total is less than or equal to the operand it pushes pushes
\* '+', and a '-' is pushed, and stored in the returned question, only in
\* front of an operand strictly smaller than the running total before it.
SubtractionOnlyBelowTotal ==
  /\ [](settings.operations = "both" =>
          /\ MinusOnlyBelowTotal(numbers, operations)
          /\ MinusOnlyBelowTotal(generated.numbers, generated.operations))
  /\ [][(settings.operations = "both" /\ genI' = genI + 1 /\ genPc = "loop")
         => LET op == operations'[Len(operations')]
                nextNumber == numbers'[Len(numbers')]
            IN  /\ runningTotal <= nextNumber => op = "+"
                /\ op = "-" => nextNumber < runningTotal]_vars

\* a returned question in both-operations mode whose second operand equals
\* the first (forced '+') and whose third is subtracted
GeneratedForcedPlus ==
  /\ genPc = "done"
  /\ settings.operations = "both"
  /\ Len(generated.numbers) = 3
  /\ generated.numbers[2] = generated.numbers[1]
  /\ generated.operations = <<"+", "-">>

RECURSIVE SumOf(_)
SumOf(nums) == IF nums = <<>> THEN 0 ELSE Head(nums) + SumOf(Tail(nums))

\* C13: the running total of generateQuestion is the left-to-right evaluation
\* of the operands and operators pushed so far, and the answer of the question
\* it returns is the left-to-right evaluation of its stored operands with its
\* stored operators: in addition-only mode, the sum of its operands.
AnswerIsEvaluation ==
  /\ genPc = "loop" =>
       runningTotal = EvalPrefix(numbers, operations, Len(numbers))
  /\ genPc = "done" =>
       /\ Len(generated.operations) = Len(generated.numbers) - 1
       /\ generated.answer = EvalPrefix(generated.numbers,
                                        generated.operations,
                                        Len(generated.numbers))
       /\ settings.operations = "addition" =>
            generated.answer = SumOf(generated.numbers)

\* a returned question of three operands, the second subtracted and the third
\* added, whose answer differs from the sum of its operands
GeneratedMixedAnswer ==
  /\ genPc = "done"
  /\ Len(generated.numbers) = 3
  /\ generated.operations = <<"-", "+">>
  /\ generated.answer # SumOf(generated.numbers)

(***************************************************************************)
(* Properties of startGame.                                                *)
(***************************************************************************)
InGame == gameState \in {"playing", "paused", "results"}

\* C9: in a game that startGame started with numQuestions = P and
\* numbersPerQuestion = N, the batch holds exactly P questions, each of
\* exactly N operands and N - 1 operators.
BatchShape ==
  InGame =>
    /\ Len(allQuestions) = settings.numQuestions
    /\ \A q \in 1..Len(allQuestions) :
         /\ Len(allQuestions[q].numbers) = settings.numbersPerQuestion
         /\ Len(allQuestions[q].operations) = settings.numbersPerQuestion - 1

\* startGame has just started a game of two questions of three operands
StartedTwoByThree ==
  /\ lastOp = "startGame"
  /\ gameState = "playing"
  /\ settings.numQuestions = 2
  /\ settings.numbersPerQuestion = 3
  /\ Len(allQuestions) = 2

NoTimerArmed == timer = "none" /\ pending = {}

CountsValid(s) == s.numQuestions >= 1 /\ s.numbersPerQuestion >= 2

\* C7 as stated: startGame with no digit-size class enabled (and valid
\* counts) starts the game, every operand a 1-digit number.
StartsWithoutDigitType ==
  (lastOp = "startGame" /\ ~HasDigitType(settings) /\ CountsValid(settings))
    => /\ gameState = "playing"
       /\ \A q \in 1..Len(allQuestions) :
            \A k \in 1..Len(allQuestions[q].numbers) :
              allQuestions[q].numbers[k] \in 1..9

\* C7 as amended: startGame with no digit-size class enabled raises the
\* alert and returns: the state stays 'setup', no batch is generated and no
\* timer is armed; generateNumber itself, given such settings, returns a
\* number in [1,9].
RejectsWithoutDigitType ==
  (lastOp = "startGame" /\ ~HasDigitType(settings))
    => /\ alertShown = NoDigitAlert
       /\ gameState = "setup"
       /\ allQuestions = <<>>
       /\ NoTimerArmed
       /\ \A rType \in GenSamples, rValue \in GenSamples :
            generateNumber(settings, rType, rValue) \in 1..9

\* startGame has just been refused for want of a digit type, counts valid
RefusedWithoutDigitType ==
  /\ lastOp = "startGame"
  /\ ~HasDigitType(settings)
  /\ CountsValid(settings)
  /\ alertShown = NoDigitAlert

\* C8: a startGame invoked with numQuestions < 1 or numbersPerQuestion < 2
\* leaves the state 'setup', generates no batch, arms no timer and leaves the
\* cursor as it was.
InvalidCountsDoNotStart ==
  [][(lastOp' = "startGame" /\ ~CountsValid(settings))
       => /\ gameState' = "setup"
          /\ allQuestions' = <<>>
          /\ timer' = "none"
          /\ pending' = {}
          /\ Cursor' = Cursor]_vars

\* startGame has just been refused for numQuestions = 0, everything else valid
RefusedWithoutQuestions ==
  /\ lastOp = "startGame"
  /\ alertShown = QuestionsAlert
  /\ settings.numQuestions = 0
  /\ gameState = "setup"

(***************************************************************************)
(* Properties of the sequencer.                                            *)
(***************************************************************************)
\* the cursors a game of p questions of n operands reveals, in order
ExpectedReveals(p, n) ==
  [j \in 1..(p * n) |-> <<(j - 1) \div n, (j - 1) % n>>]

\* C2: a game of P questions of N operands that reaches the results screen
\* (with or without Pause/Resume, no Restart) has entered Get-Ready exactly P
\* times, has entered the results screen exactly once, and has revealed for
\* each question in turn the operand indices 0, 1, ..., N-1, none skipped;
\* before that it has not entered the results screen.
SequencerCompleteness ==
  /\ gameState = "results" =>
       /\ getReadyVisits = settings.numQuestions
       /\ completeVisits = 1
       /\ revealed = ExpectedReveals(settings.numQuestions,
                                     settings.numbersPerQuestion)
  /\ gameState \in {"playing", "paused"} =>
       /\ completeVisits = 0
       /\ getReadyVisits =
            IF showingGetReady /\ revealed # <<>>
            THEN currentQuestion + 2 ELSE currentQuestion + 1

\* the results screen of a game of two questions of three operands
CompletedTwoByThree ==
  /\ gameState = "results"
  /\ Len(allQuestions) = 2
  /\ settings.numbersPerQuestion = 3
  /\ Len(revealed) = 6

\* C3: pauseGame and resumeGame each leave the cursor (question index,
\* operand index, phase flags) and the displayed value as they were, and
\* resumeGame returns to 'playing' unpaused: a pause followed by a resume with
\* no timer firing in between restores the state before the pause.
PauseResumeKeepCursor ==
  [][(lastOp' \in {"pauseGame", "resumeGame"})
       => /\ Cursor' = Cursor
          /\ displayNumber' = displayNumber
          /\ lastOp' = "pauseGame" => gameState = "playing"
          /\ lastOp' = "resumeGame" =>
               /\ lastOp = "pauseGame"
               /\ gameState' = "playing"
               /\ ~isPaused']_vars

\* resumed into the flash gap before the third operand
ResumedInFlash ==
  /\ lastOp = "resumeGame"
  /\ flashingBetweenNumbers
  /\ currentNumberIndex = 1
  /\ gameState = "playing"

\* C4: while the game is paused no timer is pending, and every step taken is
\* a Resume, which leaves the cursor as it is, or a Restart: no timer callback
\* armed before the Pause changes the cursor, whichever phase the Pause was
\* issued in.
PausedCursorFrozen ==
  /\ [](gameState = "paused" => NoTimerArmed)
  /\ [][gameState = "paused"
          => \/ lastOp' = "resumeGame" /\ Cursor' = Cursor
             \/ lastOp' = "restartGame"]_vars

\* paused while the answer of a question that is not the last is revealed
PausedOnAnswer ==
  /\ gameState = "paused"
  /\ showingAnswer
  /\ MoreQuestions(currentQuestion, allQuestions)

\* C5: after restartGame, from whichever phase, the cursor is at question 0,
\* operand 0 with every phase flag cleared, the game is in 'setup' and
\* unpaused, and the batch is empty.
RestartResets ==
  lastOp = "restartGame" =>
    /\ gameState = "setup"
    /\ currentQuestion = 0
    /\ currentNumberIndex = 0
    /\ nextQuestionNumber = 1
    /\ ~showingGetReady
    /\ ~flashingBetweenNumbers
    /\ ~calculatingAnswer
    /\ ~showingAnswer
    /\ ~isPaused
    /\ allQuestions = <<>>

\* restarted from the calculating phase of a question
RestartedWhileCalculating ==
  /\ lastOp = "restartGame"
  /\ displayNumber = CalculatingText
  /\ currentNumbers # <<>>

\* the data on screen is that of question cq of the batch
PresentsQuestion(questions, cq) ==
  /\ cq + 1 \in DOMAIN questions
  /\ currentNumbers = questions[cq + 1].numbers
  /\ currentOperations = questions[cq + 1].operations
  /\ answer = questions[cq + 1].answer

\* C6: after restartGame no timer is pending; every pending callback was
\* scheduled by the game in progress (it holds that game's batch and is
\* pending only during its Get-Ready), and whenever a game shows operands or
\* an answer they are those of its own batch.
NoOrphanTimers ==
  /\ gameState = "setup" => NoTimerArmed
  /\ \A t \in pending :
       /\ t.allQuestions = allQuestions
       /\ gameState = "playing"
       /\ showingGetReady
  /\ (gameState \in {"playing", "paused"} /\ ~showingGetReady) =>
       PresentsQuestion(allQuestions, currentQuestion)

\* a second game has just been started after a restart: its own start
\* timeout is the only pending callback, while the operands still held are
\* those of the discarded batch
SecondGameStarted ==
  /\ lastOp = "startGame"
  /\ gameState = "playing"
  /\ pending = {StartTimer(allQuestions)}
  /\ currentNumbers # <<>>
  /\ currentNumbers # allQuestions[1].numbers

(***************************************************************************)
(* Termination of the sequencer.                                           *)
(***************************************************************************)
\* startGame has just started a game
GameStarted == lastOp = "startGame" /\ gameState = "playing"

\* the game has reached the results screen or has been restarted
CompleteOrRestarted == gameState = "results" \/ lastOp = "restartGame"

\* C14 as stated: unless the game stays paused for ever (a Pause that no
\* Resume follows), every successful startGame is followed by the results
\* screen or by a Restart.
PausesResumedLeadToComplete ==
  \/ <>[](gameState = "paused")
  \/ GameStarted ~> CompleteOrRestarted

\* C14 as amended: unless the game stays paused for ever or is paused
\* infinitely often, every successful startGame is followed by the results
\* screen or by a Restart.
FinitePausesLeadToComplete ==
  \/ <>[](gameState = "paused")
  \/ []<><<PauseGame>>_vars
  \/ GameStarted ~> CompleteOrRestarted

\* the results screen entered by the answer timeout of the last question of
\* a game of two questions, none restarted
CompletedFromStart ==
  /\ gameState = "results"
  /\ lastOp = "answerTimeout"
  /\ currentQuestion = 1
  /\ completeVisits = 1
  /\ getReadyVisits = 2


(***************************************************************************)
(* The two counts of a game in progress.                                   *)
(***************************************************************************)
\* C15: from the built-in defaults, after any edits of the two number fields,
\* numQuestions never exceeds 50 and numbersPerQuestion never exceeds 20,
\* and whenever a game is in progress (playing or paused) numQuestions is in
\* [1,50] and numbersPerQuestion in [2,20].
CountsInRangeInGame ==
  /\ settings.numQuestions \in 0..50
  /\ settings.numbersPerQuestion \in 0..20
  /\ gameState \in {"playing", "paused"} =>
       /\ settings.numQuestions \in 1..50
       /\ settings.numbersPerQuestion \in 2..20

\* a game of 50 questions paused, after 51 was typed into the "Questions"
\* field and 2 into the "Numbers per Question" field
PausedGameOfFifty ==
  /\ gameState = "paused"
  /\ settings.numQuestions = 50
  /\ settings.numbersPerQuestion = 2
  /\ Len(allQuestions) = 50


(***************************************************************************)
(* The transitions of the sequencer.                                       *)
(***************************************************************************)
\* the phase of the sequencer, read from the game state and the flags in the
\* order the effect tests them
Phase ==
  IF gameState = "setup" THEN "setup"
  ELSE IF gameState = "results" THEN "complete"
  ELSE IF showingGetReady THEN "getReady"
  ELSE IF showingAnswer THEN "answer"
  ELSE IF calculatingAnswer THEN "calculating"
  ELSE IF flashingBetweenNumbers THEN "flash"
  ELSE "number"

TimeoutOps ==
  {"startTimeout", "getReadyTimeout", "answerTimeout", "calculatingTimeout",
   "flashTimeout", "numberTimeout"}

SameIndices ==
  /\ currentQuestion' = currentQuestion
  /\ currentNumberIndex' = currentNumberIndex

\* the transitions of the sequencer, P and N the counts of the game
SpecifiedTransition ==
  LET P == settings.numQuestions
      N == settings.numbersPerQuestion
  IN  \/ /\ Phase = "getReady"
         /\ Phase' = "number"
         /\ currentQuestion' = nextQuestionNumber - 1
         /\ currentNumberIndex' = 0
      \/ /\ Phase = "number"
         /\ currentNumberIndex < N - 1
         /\ Phase' = "flash"
         /\ SameIndices
      \/ /\ Phase = "number"
         /\ currentNumberIndex = N - 1
         /\ Phase' = "calculating"
         /\ SameIndices
      \/ /\ Phase = "flash"
         /\ Phase' = "number"
         /\ currentQuestion' = currentQuestion
         /\ currentNumberIndex' = currentNumberIndex + 1
         /\ currentNumberIndex' <= N - 1
      \/ /\ Phase = "calculating"
         /\ Phase' = "answer"
         /\ SameIndices
      \/ /\ Phase = "answer"
         /\ currentQuestion < P - 1
         /\ Phase' = "getReady"
         /\ nextQuestionNumber' = (currentQuestion + 1) + 1
         /\ SameIndices
      \/ /\ Phase = "answer"
         /\ currentQuestion = P - 1
         /\ Phase' = "complete"
         /\ SameIndices

\* C16: every step a timeout callback takes is one of the transitions
\* Get-Ready -> operand 0 of the announced question; operand k -> flash gap
\* if k < N-1, else -> calculating; flash gap -> operand k+1; calculating ->
\* answer; answer -> Get-Ready announcing question index+1 if more questions
\* remain, else -> results.  Pause and Resume keep the phase and the indices,
\* and besides the timeouts only startGame and restartGame change the phase.
OnlySpecifiedTransitions ==
  [][/\ lastOp' \in TimeoutOps => SpecifiedTransition
     /\ lastOp' \in {"pauseGame", "resumeGame"} =>
          Phase' = Phase /\ SameIndices
     /\ Phase' # Phase =>
          lastOp' \in TimeoutOps \cup {"startGame", "restartGame"}]_vars

\* the flash timeout has just revealed the last operand of the second question
RevealedLastOperandOfSecond ==
  /\ lastOp = "flashTimeout"
  /\ currentQuestion = 1
  /\ currentNumberIndex = 2
  /\ settings.numbersPerQuestion = 3
  /\ Phase = "number"


(***************************************************************************)
(* The timeouts pending.                                                   *)
(***************************************************************************)
\* the number of timeouts pending: the one the effect armed and those no
\* cleanup clears
PendingTimeouts == Cardinality(pending) + (IF timer = "none" THEN 0 ELSE 1)

\* C17: in every state reached by any interleaving of Start, Pause, Resume,
\* Restart and timeout callbacks at most one timeout is pending, so at most
\* one callback can apply a phase transition.
AtMostOneTimeout == PendingTimeouts <= 1

\* the answer timeout has just set the nested Get-Ready timeout, the only one
\* pending
NestedTimeoutAlone ==
  /\ lastOp = "answerTimeout"
  /\ pending = {GetReadyTimer(currentQuestion, allQuestions)}
  /\ timer = "none"


\* C18: on the results screen no timeout is pending, so no callback fires,
\* and the only step that leaves the results screen, or changes anything
\* there, is restartGame.
CompleteIsTerminal ==
  /\ [](gameState = "results" => NoTimerArmed)
  /\ [][gameState = "results" =>
          /\ lastOp' = "restartGame"
          /\ gameState' = "setup"]_vars

\* the results screen, the answer of the last question still flagged as shown
ResultsWithAnswerShown ==
  /\ gameState = "results"
  /\ showingAnswer
  /\ ~isPaused
  /\ currentQuestion + 1 = Len(allQuestions)
  /\ displayNumber = NumberToString(answer)


(***************************************************************************)
(* The batch and the indices during a game.                                *)
(***************************************************************************)
\* C19: from a successful startGame to the next restartGame the batch is not
\* modified: pauseGame, resumeGame and every timeout callback leave
\* allQuestions as it is, only startGame and restartGame write it, and
\* startGame, which alone generates questions, is not invoked during a game.
BatchImmutableInGame ==
  [][/\ allQuestions' # allQuestions =>
          lastOp' \in {"startGame", "restartGame"}
     /\ InGame =>
          /\ lastOp' # "startGame"
          /\ allQuestions' = allQuestions \/ lastOp' = "restartGame"]_vars

\* resumed during the second question, the batch of two questions in place
ResumedInSecondQuestion ==
  /\ lastOp = "resumeGame"
  /\ currentQuestion = 1
  /\ Len(allQuestions) = 2
  /\ PresentsQuestion(allQuestions, 1)

\* <<q1, k1>> is at most <<q2, k2>> in lexicographic order
LexLeq(q1, k1, q2, k2) == q1 < q2 \/ (q1 = q2 /\ k1 <= k2)

\* C20: from a successful startGame to the next restartGame no step (timeout
\* callback, pauseGame or resumeGame) decreases the pair (currentQuestion,
\* currentNumberIndex) in lexicographic order.
IndicesNeverDecrease ==
  [][(InGame /\ lastOp' # "restartGame") =>
       LexLeq(currentQuestion, currentNumberIndex,
              currentQuestion', currentNumberIndex')]_vars

\* the nested timeout has just moved from the last operand of the first
\* question to operand 0 of the second
MovedToSecondQuestion ==
  /\ lastOp = "getReadyTimeout"
  /\ currentQuestion = 1
  /\ currentNumberIndex = 0
  /\ settings.numbersPerQuestion = 3


(***************************************************************************)
(* The delays of the timeouts.                                             *)
(***************************************************************************)
\* the operand display delay per level, in milliseconds
NumberDelayTable == <<2000, 1500, 1000, 500, 500>>

\* the calculating delay per level, in milliseconds
AnswerDelayTable == <<5000, 4400, 3800, 3200, 2600>>

NumberDelayMs(level) == Milliseconds(getDelays(level).numberDelay)

AnswerDelayMs(level) == Milliseconds(getDelays(level).answerDelay)

\* C21: for levels 1..5 the operand display delay is
\* max(500, 2000 - (level-1)*500) ms (2000, 1500, 1000, 500, 500) and the
\* calculating delay max(800, 5000 - (level-1)*600) ms (5000, 4400, 3800,
\* 3200, 2600), both non-increasing in level; every timeout armed while an
\* operand is shown or during calculating has the delay of the level of the
\* settings, and the flash gap (200 ms), the Get-Ready timeouts (1000 ms)
\* and the timeout after the answer (2000 ms) are the same at every level.
DelaysByLevel ==
  /\ \A level \in Levels :
       /\ NumberDelayMs(level) = NumberDelayTable[level]
       /\ NumberDelayMs(level) = Max(500, 2000 - (level - 1) * 500)
       /\ AnswerDelayMs(level) = AnswerDelayTable[level]
       /\ AnswerDelayMs(level) = Max(800, 5000 - (level - 1) * 600)
  /\ \A l1, l2 \in Levels :
       l1 <= l2 => /\ NumberDelayMs(l2) <= NumberDelayMs(l1)
                   /\ AnswerDelayMs(l2) <= AnswerDelayMs(l1)
  /\ settings.level \in Levels
  /\ timer = "number" => delay = NumberDelayTable[settings.level]
  /\ timer = "calculating" => delay = AnswerDelayTable[settings.level]
  /\ timer = "flash" => delay = 200
  /\ timer = "answer" => delay = 2000
  /\ timer = "none" => delay = 0
  /\ \A t \in pending : t.delay = 1000

\* an operand of the second question shown at level 5, where the lower limit
\* of the operand delay applies
OperandShownAtLevelFive ==
  /\ settings.level = 5
  /\ timer = "number"
  /\ delay = 500
  /\ currentQuestion = 1


(***************************************************************************)
(* The progress bar.                                                       *)
(***************************************************************************)
\* the dividend of the width of the progress bar
ProgressNumerator ==
  currentQuestion * Len(currentNumbers) + currentNumberIndex
    + (IF showingAnswer THEN 1 ELSE 0)

\* the divisor of the width of the progress bar
ProgressDenominator == settings.numQuestions * settings.numbersPerQuestion

InProgress == gameState \in {"playing", "paused"}

\* C22: in every state of a game in progress (playing or paused) the
\* progress fraction (currentQuestion * N + currentNumberIndex + (1 if the
\* answer is shown)) / (numQuestions * numbersPerQuestion) has a positive
\* divisor and lies between 0 and 1 inclusive, and it is 1 only while the
\* answer of the last question is shown.
ProgressWithinUnit ==
  InProgress =>
    /\ ProgressDenominator > 0
    /\ ProgressNumerator >= 0
    /\ ProgressNumerator <= ProgressDenominator
    /\ ProgressNumerator = ProgressDenominator =>
         /\ showingAnswer
         /\ ~showingGetReady
         /\ currentQuestion = settings.numQuestions - 1

\* paused on the answer of the last of two questions of three operands,
\* the progress fraction 6 / 6
PausedAtFullProgress ==
  /\ gameState = "paused"
  /\ showingAnswer
  /\ ProgressNumerator = 6
  /\ ProgressDenominator = 6


\* the step from the answer of a question into the Get-Ready dwell of the next
EntersGetReady == showingAnswer /\ showingGetReady' /\ ~showingGetReady

\* C23 as stated: during a game no step other than restartGame decreases the
\* progress fraction, the step from the answer of question q into the
\* Get-Ready dwell of question q+1 included.
ProgressNeverDecreases ==
  [][(InProgress /\ lastOp' # "restartGame") =>
       /\ ProgressDenominator' = ProgressDenominator
       /\ ProgressNumerator' >= ProgressNumerator]_vars

\* C23 as amended: during a game no step other than restartGame decreases
\* the progress fraction, except the step from the answer of question q into
\* the Get-Ready dwell of question q+1, which lowers it by exactly
\* 1 / (numQuestions * numbersPerQuestion); the nested timeout that ends the
\* dwell raises it by as much, so that operand 0 of question q+1 is shown
\* with the fraction the answer of question q was shown with.
ProgressDipsOnlyInGetReady ==
  [][(InProgress /\ lastOp' # "restartGame") =>
       /\ ProgressDenominator' = ProgressDenominator
       /\ IF EntersGetReady
          THEN ProgressNumerator' = ProgressNumerator - 1
          ELSE ProgressNumerator' >= ProgressNumerator
       /\ lastOp' = "getReadyTimeout" =>
            /\ ProgressNumerator' = ProgressNumerator + 1
            /\ ProgressNumerator' =
                 currentQuestion' * settings.numbersPerQuestion]_vars

\* the Get-Ready dwell of the second question of a game of three operands,
\* just entered from the answer of the first: the progress fraction is 2 / 6
\* after 3 / 6
GetReadyAfterFirstAnswer ==
  /\ lastOp = "answerTimeout"
  /\ showingGetReady
  /\ currentQuestion = 0
  /\ ProgressNumerator = 2
  /\ ProgressDenominator = 6


(***************************************************************************)
(* The phase flags and the data presented.                                 *)
(***************************************************************************)
\* the phase flags that are set
FlagsSet ==
  {f \in {"showingGetReady", "flashingBetweenNumbers", "calculatingAnswer",
          "showingAnswer"} :
     \/ f = "showingGetReady" /\ showingGetReady
     \/ f = "flashingBetweenNumbers" /\ flashingBetweenNumbers
     \/ f = "calculatingAnswer" /\ calculatingAnswer
     \/ f = "showingAnswer" /\ showingAnswer}

\* C24: in every reachable state at most one of showingGetReady,
\* flashingBetweenNumbers, calculatingAnswer and showingAnswer is true.
AtMostOnePhaseFlag == Cardinality(FlagsSet) <= 1

\* the answer of the first question is shown after its calculating phase,
\* showingAnswer the only flag set
AnswerFlagAlone ==
  /\ lastOp = "calculatingTimeout"
  /\ FlagsSet = {"showingAnswer"}
  /\ gameState = "playing"


\* C25: whenever the game is playing or paused and not in the Get-Ready
\* dwell, currentNumbers, currentOperations and answer are those of
\* allQuestions[currentQuestion]; while an operand is shown (also dimmed,
\* during the flash) the displayed text reads currentNumbers[currentNumberIndex]
\* with currentNumberIndex < N, during calculating it is the calculating
\* text, and while the answer is shown it reads the answer of that question.
PresentedDataIsCurrent ==
  (InProgress /\ ~showingGetReady) =>
    /\ PresentsQuestion(allQuestions, currentQuestion)
    /\ Phase \in {"number", "flash"} =>
         /\ currentNumberIndex < settings.numbersPerQuestion
         /\ currentNumberIndex < Len(currentNumbers)
         /\ ParseInt(displayNumber) =
              allQuestions[currentQuestion + 1].numbers[currentNumberIndex + 1]
    /\ Phase = "calculating" => displayNumber = CalculatingText
    /\ Phase = "answer" =>
         ParseInt(displayNumber) = allQuestions[currentQuestion + 1].answer

\* paused on the last operand of the second question, which differs from the
\* operand before it and from the last operand of the first question
PausedOnLastOperand ==
  /\ gameState = "paused"
  /\ Phase = "number"
  /\ currentQuestion = 1
  /\ currentNumberIndex = 2
  /\ currentNumbers[3] # currentNumbers[2]
  /\ currentNumbers[3] # allQuestions[1].numbers[3]
  /\ ParseInt(displayNumber) = currentNumbers[3]


(***************************************************************************)
(* Strict positivity of the generator.                                     *)
(***************************************************************************)
PrefixesPositive(nums, ops) ==
  \A k \in 1..Len(nums) : EvalPrefix(nums, ops, k) >= 1

\* C26: at every point of generateQuestion, and in the question it returns,
\* every left-to-right prefix evaluation, and hence the running total and the
\* returned answer, is >= 1: no subtraction brings the running total to 0;
\* and the repair branch (redraw of the operand from [1, runningTotal-1], or
\* downgrade to '+') has not been entered.
GeneratedPrefixesPositive ==
  /\ PrefixesPositive(numbers, operations)
  /\ genPc = "loop" => runningTotal >= 1
  /\ genPc = "done" =>
       /\ PrefixesPositive(generated.numbers, generated.operations)
       /\ generated.answer >= 1
  /\ ~repaired

\* a returned question whose subtraction leaves the smallest total, 1
GeneratedAnswerOne ==
  /\ genPc = "done"
  /\ generated.answer = 1
  /\ Len(generated.operations) >= 1
  /\ generated.operations[Len(generated.operations)] = "-"

====
